---- MODULE Spec2Model ----
(***************************************************************************)
(* A model of sms_reader.py (Windows Phone Link edition): the schema       *)
(* resolver and reader read_messages, the timestamp normaliser             *)
(* format_timestamp, and the polling loop monitor.                         *)
(***************************************************************************)
EXTENDS Integers, Sequences, FiniteSets, TLC

VARIABLES
    schema,      \* the store's tables: actual table name -> its columns, in order
    store,       \* the store's content: actual table name -> its rows, in rowid order
    incidents,   \* number of things the environment has done to the session so
                 \* far: writes by the companion app and store accesses that raised
    pc,          \* where monitor is
    seen,        \* monitor's `seen` set
    msgs,        \* the list the last read_messages call returned
    emitted,     \* the "New message" events printed so far, in order; each with
                 \* (history) the number of events printed before its poll began
    openConns,   \* connections opened by read_messages (line 99) and not closed
    seeded,      \* history: the rows in the store when the seeding fetch ran
    seen0,       \* history: `seen` when the current poll's fetch returned
    lastRead,    \* history: how the last read_messages call ended
    fmt_in,      \* format_timestamp check: the seconds value s under test
    fmt_sec,     \* format_timestamp(s), or Pending
    fmt_ms,      \* format_timestamp(1000 * s), or Pending
    res_columns, \* find_col check: the table's columns, as get_columns returns them
    res_hyp,     \* find_col check: index of the hypothesis in candidates
    res_out      \* find_col check: the resolved (s_col, b_col, d_col), or Pending

vars == <<schema, store, incidents, pc, seen, msgs, emitted,
          openConns, seeded, seen0, lastRead,
          fmt_in, fmt_sec, fmt_ms, res_columns, res_hyp, res_out>>

None == "None"
\* a result not computed yet
Pending == [kind |-> "Pending"]

\* history not recorded yet
NotSeeded == [done |-> FALSE]
NoRead == [call |-> "none"]

Min(S) == CHOOSE x \in S : \A y \in S : x <= y

(***************************************************************************)
(* Python integers are unbounded; the timestamps of interest (1e12 and     *)
(* above) do not fit the model checker's machine integers.  A natural      *)
(* number n is therefore kept as two limbs, n = hi * Base + lo.            *)
(***************************************************************************)
Base == 1000 * 1000

Big(h, l) == [hi |-> h, lo |-> l]

BigGT(a, b) == a.hi > b.hi \/ (a.hi = b.hi /\ a.lo > b.lo)

\* floor(a / 1000): what strftime shows of the float ts / 1000
BigDiv1000(a) == Big(a.hi \div 1000, (a.hi % 1000) * 1000 + a.lo \div 1000)

BigMul1000(a) == Big(a.hi * 1000 + (a.lo * 1000) \div Base, (a.lo * 1000) % Base)

\* ---- format_timestamp -----------------------------------------------------

\* the literal 1e12 of `if ts > 1e12`
MsThreshold == Big(1000 * 1000, 0)

\* datetime.fromtimestamp raises beyond year 9999 (9999-12-31 23:59:59 UTC)
MaxEpochSecond == Big(253402, 300799)

IsMillisecondsMut(ts) == BigGT(ts, Big(10 * 1000 * 1000, 0))

\* `ts > 1e12`
IsMilliseconds(ts) == BigGT(ts, MsThreshold)

\* datetime.fromtimestamp(ts).strftime("%Y-%m-%d %H:%M:%S"): the text of the
\* whole second, written here as the second it denotes; raises when the
\* instant is out of datetime's range
CanConvert(sec) == ~BigGT(sec, MaxEpochSecond)

Formatted(sec) == [kind |-> "instant", second |-> sec]

\* ts_raw is [t |-> "none"], [t |-> "int", v |-> Big] or [t |-> "text", s |-> STRING]
\* (a text that int() rejects)
format_timestamp(ts_raw) ==
    IF ts_raw.t = "none" THEN [kind |-> "Unknown"]
    ELSE IF ts_raw.t = "int" THEN
        LET ts == IF IsMilliseconds(ts_raw.v) THEN BigDiv1000(ts_raw.v) ELSE ts_raw.v
        IN  IF CanConvert(ts) THEN Formatted(ts)
            ELSE [kind |-> "str", of |-> ts_raw]
    ELSE [kind |-> "str", of |-> ts_raw]

IntTs(v) == [t |-> "int", v |-> v]

\* ---- find_col and the hypotheses of read_messages -------------------------

\* str.lower() on the names that occur
Lower(s) ==
    CASE s = "Messages" -> "messages"
      [] s = "RowId" -> "rowid"
      [] s = "Sender" -> "sender"
      [] s = "MessageText" -> "messagetext"
      [] s = "Timestamp" -> "timestamp"
      [] s = "MessageType" -> "messagetype"
      [] s = "SMSMessages" -> "smsmessages"
      [] s = "MessageId" -> "messageid"
      [] s = "SenderNumber" -> "sendernumber"
      [] s = "Body" -> "body"
      [] s = "ReceivedTime" -> "receivedtime"
      [] s = "Direction" -> "direction"
      [] s = "Conversations" -> "conversations"
      [] OTHER -> s

LowerAll(names) == [i \in DOMAIN names |-> Lower(names[i])]

InSeq(x, q) == \E i \in DOMAIN q : q[i] = x

\* list.index
IndexOf(x, q) == Min({i \in DOMAIN q : q[i] = x})

candidates ==
    << [table |-> "Messages", id_col |-> "RowId", sender_col |-> "Sender",
        body_col |-> "MessageText", date_col |-> "Timestamp", dir_col |-> "MessageType"],
       [table |-> "messages", id_col |-> "id", sender_col |-> "address",
        body_col |-> "body", date_col |-> "date", dir_col |-> "type"],
       [table |-> "message", id_col |-> "id", sender_col |-> "sender",
        body_col |-> "body", date_col |-> "timestamp", dir_col |-> "direction"],
       [table |-> "SMSMessages", id_col |-> "MessageId", sender_col |-> "SenderNumber",
        body_col |-> "Body", date_col |-> "ReceivedTime", dir_col |-> "Direction"],
       [table |-> "Conversations", id_col |-> "id", sender_col |-> "recipient",
        body_col |-> "snippet", date_col |-> "last_message_timestamp", dir_col |-> None] >>

\* find_col of read_messages: `columns` is get_columns(db_path, actual_table)
find_col(candidates_list, columns) ==
    LET cols == LowerAll(columns)
        hits == {k \in DOMAIN candidates_list : InSeq(Lower(candidates_list[k]), cols)}
    IN  IF hits = {} THEN None
        ELSE columns[IndexOf(Lower(candidates_list[Min(hits)]), cols)]

SenderCandidatesMut(sender_col) ==
    <<sender_col, "sender", "address", "from_address", "number", "phone_number">>

SenderCandidates(sender_col) ==
    <<sender_col, "address", "sender", "from_address", "number", "phone_number">>

BodyCandidates(body_col) ==
    <<body_col, "body", "text", "messagetext", "message_text", "content">>

DateCandidates(date_col) ==
    <<date_col, "timestamp", "date", "received_time", "created_at", "date_sent">>

ResolveColumns(h, columns) ==
    [s_col |-> find_col(SenderCandidates(candidates[h].sender_col), columns),
     b_col |-> find_col(BodyCandidates(candidates[h].body_col), columns),
     d_col |-> find_col(DateCandidates(candidates[h].date_col), columns)]

\* ---- the store ------------------------------------------------------------

Range(q) == {q[i] : i \in DOMAIN q}

\* What a column holds, by its name: the model keeps a row as
\* [rowid, sender, address, body, date, dir] and dict(row) maps each of the
\* table's columns to the field its name denotes.
FieldOf(col) ==
    LET l == Lower(col)
    IN  CASE l \in {"rowid", "id", "messageid"} -> "rowid"
          [] l \in {"sender", "sendernumber", "recipient"} -> "sender"
          [] l = "address" -> "address"
          [] l \in {"messagetext", "body", "snippet"} -> "body"
          [] l \in {"timestamp", "date", "receivedtime"} -> "date"
          [] OTHER -> "dir"

\* row_dict = dict(row)
RowDict(columns, r) == [c \in Range(columns) |-> r[FieldOf(c)]]

\* ---- read_messages --------------------------------------------------------

MinOf(a, b) == IF a < b THEN a ELSE b

\* ORDER BY d_col DESC; rows of equal d_col come in an order SQLite does not
\* promise (tie: by rowid, ascending or descending).  Without d_col there is
\* no ORDER BY and the rows come in rowid order.
Before(a, b, key, tie) ==
    IF key = None THEN a.rowid < b.rowid
    ELSE \/ BigGT(a[key].v, b[key].v)
         \/ /\ a[key].v = b[key].v
            /\ IF tie = "asc" THEN a.rowid < b.rowid ELSE a.rowid > b.rowid

FirstN(q, n) == SubSeq(q, 1, MinOf(n, Len(q)))

Reverse(q) == [i \in 1..Len(q) |-> q[Len(q) + 1 - i]]

\* SELECT * FROM actual_table ORDER BY d_col DESC LIMIT limit; rows is the
\* table in rowid order.  (Before is a total order, so the result does not
\* depend on the order the sort is given the rows in; newest rowid first is
\* the order it has least to do on.)
Query(rows, d_col, limit, tie) ==
    LET key == IF d_col = None THEN None ELSE FieldOf(d_col)
    IN  FirstN(SortSeq(IF key = None THEN rows ELSE Reverse(rows),
                       LAMBDA a, b : Before(a, b, key, tie)), limit)

\* the body of `for row in rows` (lines 147-170) for one row; msg["raw"],
\* which nothing reads, is left out
MakeMessage(h, table, columns, resolved, r) ==
    LET row_dict == RowDict(columns, r)
        dir_col == candidates[h].dir_col
        dc == IF dir_col = None THEN None ELSE find_col(<<dir_col>>, columns)
    IN  [sender |-> row_dict[resolved.s_col],
         body |-> row_dict[resolved.b_col],
         timestamp |-> IF resolved.d_col # None
                       THEN format_timestamp(row_dict[resolved.d_col])
                       ELSE [kind |-> "Unknown"],
         direction |-> IF dir_col = None THEN "Inbox"
                       ELSE IF dc # None THEN row_dict[dc] ELSE "?",
         \* history: the row the message was built from, and the hypothesis
         origin |-> [table |-> table, rowid |-> r.rowid],
         hyp |-> h]

\* whether find_col reaches get_columns (line 130) in the row loop
RowLoopReadsColumns(h, columns) ==
    /\ candidates[h].dir_col # None
    /\ find_col(<<candidates[h].dir_col>>, columns) # None

NoFailure == [at |-> "none"]

\* the table of hypothesis h as the store names it (line 123), or None
ActualTable(h, sch) ==
    LET matching == {t \in DOMAIN sch : Lower(t) = Lower(candidates[h].table)}
    IN  IF matching = {} THEN None ELSE CHOOSE t \in matching : TRUE

\* what c.execute(query); c.fetchall() of lines 141-144 give for each
\* hypothesis that gets that far
Answers(sch, st, limit, tie) ==
    [h \in DOMAIN candidates |->
        LET actual_table == ActualTable(h, sch)
        IN  IF actual_table = None THEN <<>>
            ELSE LET resolved == ResolveColumns(h, sch[actual_table])
                 IN  IF resolved.s_col = None \/ resolved.b_col = None THEN <<>>
                     ELSE Query(st[actual_table], resolved.d_col, limit, tie)]

\* `for table, ... in candidates` from hypothesis h on; acc holds `messages`
\* so far and (history) whether an exception was caught at line 175.
\* ctx.fail names the one store access of this call that raises, if any:
\*   "columns", h     get_columns at line 124 or line 130 via lines 133-135
\*   "query", h       c.execute / c.fetchall at lines 143-144
\*   "row", h, k      get_columns at line 130 via line 162, for the k-th row
RECURSIVE Scan(_, _, _)
Scan(h, acc, ctx) ==
    IF h > Len(candidates)
    THEN [raised |-> FALSE, messages |-> acc.messages, caught |-> acc.caught]
    ELSE
    LET actual_table == ActualTable(h, ctx.sch)
    IN  IF actual_table = None THEN Scan(h + 1, acc, ctx)
        ELSE
        LET columns == ctx.sch[actual_table]
            resolved == ResolveColumns(h, columns)
        IN  IF ctx.fail.at = "columns" /\ ctx.fail.h = h
            THEN [raised |-> TRUE, messages |-> <<>>, caught |-> acc.caught]
            ELSE IF resolved.s_col = None \/ resolved.b_col = None
            THEN Scan(h + 1, acc, ctx)
            ELSE IF ctx.fail.at = "query" /\ ctx.fail.h = h
            THEN Scan(h + 1, [acc EXCEPT !.caught = TRUE], ctx)
            ELSE
            LET rows == ctx.answers[h]
                built == [i \in DOMAIN rows |->
                            MakeMessage(h, actual_table, columns, resolved, rows[i])]
            IN  IF /\ ctx.fail.at = "row" /\ ctx.fail.h = h /\ ctx.fail.k <= Len(rows)
                   /\ RowLoopReadsColumns(h, columns)
                THEN Scan(h + 1,
                          [messages |-> acc.messages \o SubSeq(built, 1, ctx.fail.k - 1),
                           caught |-> TRUE],
                          ctx)
                ELSE IF acc.messages \o built # <<>>
                     THEN [raised |-> FALSE, messages |-> acc.messages \o built,
                           caught |-> acc.caught]
                     ELSE Scan(h + 1, acc, ctx)

\* read_messages after its connect, lines 103-179; answers is what the
\* store gives to the queries of this call
read_messages(sch, answers, fail) ==
    IF fail.at = "tables" THEN [raised |-> TRUE, messages |-> <<>>, caught |-> FALSE]
    ELSE Scan(1, [messages |-> <<>>, caught |-> FALSE],
              [sch |-> sch, answers |-> answers, fail |-> fail])

\* ---- monitor --------------------------------------------------------------

SeedLimit == 50
PollLimit == 20
KeyBodyLen == 30

\* m.get("body", "")[:30]
Truncate(body) == SubSeq(body, 1, MinOf(KeyBodyLen, Len(body)))

msg_id(m) == <<m.sender, m.timestamp, Truncate(m.body)>>

IsNewMut(mid, seenSet) == TRUE

\* `if mid not in seen`
IsNew(mid, seenSet) == mid \notin seenSet

\* lines 270-275, `for msg in msgs` from position i on: the new `seen` and
\* the events printed
RECURSIVE EmitLoop(_, _, _, _, _)
EmitLoop(list, i, seenSet, events, before) ==
    IF i > Len(list) THEN [seen |-> seenSet, emitted |-> events]
    ELSE LET mid == msg_id(list[i])
         IN  IF IsNew(mid, seenSet)
             THEN EmitLoop(list, i + 1, seenSet \cup {mid},
                           Append(events, [before |-> before, key |-> mid, msg |-> list[i]]),
                           before)
             ELSE EmitLoop(list, i + 1, seenSet, events, before)

\* ---- the stores and rows explored -----------------------------------------

MaxIncidents == 1

Seconds(n) == IntTs(Big(n \div Base, n % Base))

Chars30 == [i \in 1..KeyBodyLen |-> "a"]

Row(id, who, number, text, date) ==
    [rowid |-> id, sender |-> who, address |-> number, body |-> text, date |-> date,
     dir |-> "1"]

\* a short history; the third row's timestamp is in milliseconds
History ==
    << Row(1, "Alice", "+111", <<"h", "i">>, Seconds(1700000000)),
       Row(2, "Alice", "+111", Chars30 \o <<"x">>, Seconds(1700000060)),
       Row(3, "Bob", "+222", <<"h", "i">>, IntTs(Big(1700000, 120000))) >>

\* a history longer than the seeding fetch: its newest PollLimit + 1 rows
\* belong to one thread, the rest to another
Backlog ==
    [i \in 1..(SeedLimit + 1) |->
        Row(i, IF i > PollLimit THEN "Carol" ELSE "Dave",
            IF i > PollLimit THEN "+333" ELSE "+444", <<"o", "l", "d">>,
            Seconds(1600000000 + i))]

\* the rows that may arrive; the first differs from row 2 of History only in
\* its rowid and in its 31st character
Arrivals ==
    { Row(101, "Alice", "+111", Chars30 \o <<"y">>, Seconds(1700000060)),
      Row(102, "Bob", "+222", <<"y", "o">>, Seconds(1700000180)) }

\* more messages than one poll fetches, arriving together (a phone that syncs
\* after being offline)
Burst ==
    [i \in 1..(PollLimit + 1) |->
        Row(200 + i, "Erin", "+555", <<"n", "e", "w">>, Seconds(1700001000 + i))]

Threads == {"Alice", "Carol"}

SecondOnly == [t \in {"messages"} |-> <<"id", "address", "body", "date", "type">>]

FirstAndThird ==
    [t \in {"Messages", "message"} |->
        IF t = "Messages"
        THEN <<"RowId", "Sender", "MessageText", "Timestamp", "MessageType">>
        ELSE <<"id", "sender", "body", "timestamp", "direction">>]

\* a first-hypothesis table whose columns do not resolve, and a table of the
\* fourth hypothesis without its SenderNumber column
UnresolvedAndFourth ==
    [t \in {"Messages", "SMSMessages"} |->
        IF t = "Messages"
        THEN <<"RowId", "payload">>
        ELSE <<"MessageId", "sender", "address", "Body", "ReceivedTime", "Direction">>]

\* a table without any date column
NoDate == [t \in {"Conversations"} |-> <<"id", "recipient", "snippet">>]

Schemas == {SecondOnly, FirstAndThird, UnresolvedAndFourth, NoDate}

\* the tables the companion app writes during a session: a table whose
\* columns do not resolve keeps what it starts with (no read shows its rows)
Synced(sch) == IF sch = UnresolvedAndFourth THEN {"SMSMessages"} ELSE DOMAIN sch

\* the contents the store starts with; the long history comes alone
InitialStores(sch) ==
    [DOMAIN sch -> {<<>>, History}]
    \cup (IF sch = SecondOnly THEN {[t \in DOMAIN sch |-> Backlog]} ELSE {})

AllRows(st) ==
    UNION {{[table |-> t, rowid |-> st[t][i].rowid] : i \in DOMAIN st[t]} : t \in DOMAIN st}

HasRow(rows, id) == \E i \in DOMAIN rows : rows[i].rowid = id

\* the hypotheses whose table the store has (the others make no store access)
Present == {h \in DOMAIN candidates : ActualTable(h, schema) # None}

\* the k-th row of a failure in the row loop: a row after the first (at the
\* first row the call goes on as after a failed query)
FailRows == {2}

Failures ==
    {[at |-> "tables"]}
    \cup {[at |-> "columns", h |-> h] : h \in Present}
    \cup {[at |-> "query", h |-> h] : h \in Present}
    \cup {[at |-> "row", h |-> h, k |-> k] : h \in Present, k \in FailRows}

MayFail == IF incidents < MaxIncidents THEN Failures \cup {NoFailure} ELSE {NoFailure}

\* the orders SQLite may give to rows of equal d_col; one when there are none
Ties ==
    IF \E t \in DOMAIN store :
          Cardinality({store[t][i].date : i \in DOMAIN store[t]}) < Len(store[t])
    THEN {"asc", "desc"} ELSE {"asc"}

\* monitor looks at the store only in Seed and Poll: a write at any other
\* moment shows exactly as one made just before the next fetch
Writable == pc = "poll_connect"

Running == pc \in {"seed_connect", "seed_read", "poll_connect", "poll_read", "sleep"}

PureIdle ==
    /\ fmt_in = Big(0, 0) /\ fmt_sec = Pending /\ fmt_ms = Pending
    /\ res_columns = <<>> /\ res_hyp = 0 /\ res_out = Pending

pureVars == <<fmt_in, fmt_sec, fmt_ms, res_columns, res_hyp, res_out>>
storeVars == <<schema, store>>
histVars == <<seeded, seen0, lastRead>>

\* monitor is called: `seen = set()`, about to make the seeding fetch
Init ==
    /\ schema \in Schemas
    /\ store \in InitialStores(schema)
    /\ incidents = 0
    /\ pc = "seed_connect"
    /\ seen = {} /\ msgs = <<>> /\ emitted = <<>>
    /\ openConns = 0 /\ seeded = NotSeeded /\ seen0 = {} /\ lastRead = NoRead
    /\ PureIdle

\* -- the companion app writes the store

Write(t, rows) ==
    /\ Writable /\ incidents < MaxIncidents
    /\ store' = [store EXCEPT ![t] = rows]
    /\ incidents' = incidents + 1
    /\ UNCHANGED <<schema, pc, seen, msgs, emitted, openConns, histVars, pureVars>>

\* a row goes where its rowid puts it
Place(rows, r) ==
    SelectSeq(rows, LAMBDA x : x.rowid < r.rowid) \o <<r>>
    \o SelectSeq(rows, LAMBDA x : x.rowid > r.rowid)

InsertRow(t, r) == ~HasRow(store[t], r.rowid) /\ Write(t, Place(store[t], r))

InsertBurst(t) ==
    /\ \A i \in DOMAIN store[t] : store[t][i].rowid < Burst[1].rowid
    /\ Write(t, store[t] \o Burst)

DeleteRow(t, id) ==
    /\ HasRow(store[t], id)
    /\ Write(t, SelectSeq(store[t], LAMBDA x : x.rowid # id))

DeleteThread(t, who) ==
    /\ \E i \in DOMAIN store[t] : store[t][i].sender = who
    /\ Write(t, SelectSeq(store[t], LAMBDA x : x.sender # who))

\* -- monitor

\* sqlite3.connect at line 99, for the call at line 264 (seeding) or at
\* line 269 (a poll); when it raises, nothing in monitor catches it
Connect(from, to, crashed) ==
    /\ pc = from
    /\ \/ pc' = to /\ openConns' = openConns + 1 /\ UNCHANGED incidents
       \/ /\ incidents < MaxIncidents
          /\ pc' = crashed /\ incidents' = incidents + 1 /\ UNCHANGED openConns
    /\ UNCHANGED <<storeVars, seen, msgs, emitted, histVars, pureVars>>

SeedConnect == Connect("seed_connect", "seed_read", "seed_crashed")

PollConnect == Connect("poll_connect", "poll_read", "poll_crashed")

\* lines 103-179 of the call at line 264, and the seeding loop of lines 264-265
Seed ==
    /\ pc = "seed_read"
    /\ \E tie \in Ties :
         LET answers == Answers(schema, store, SeedLimit, tie)
         IN  \E fail \in MayFail :
               LET r == read_messages(schema, answers, fail)
               IN  /\ lastRead' = [call |-> "seed", raised |-> r.raised, caught |-> r.caught]
                   /\ seeded' = [done |-> TRUE, rows |-> AllRows(store), caught |-> r.caught]
                   /\ incidents' = IF r.raised \/ r.caught THEN incidents + 1 ELSE incidents
                   /\ IF r.raised
                      THEN /\ pc' = "seed_crashed"
                           /\ UNCHANGED <<seen, msgs, openConns>>
                      ELSE /\ pc' = "poll_connect"
                           /\ msgs' = r.messages
                           /\ openConns' = openConns - 1
                           /\ seen' = {msg_id(r.messages[i]) : i \in DOMAIN r.messages}
    /\ UNCHANGED <<storeVars, emitted, seen0, pureVars>>

\* lines 103-179 of the call at line 269, and the loop of lines 270-275
Poll ==
    /\ pc = "poll_read"
    /\ \E tie \in Ties :
         LET answers == Answers(schema, store, PollLimit, tie)
         IN  \E fail \in MayFail :
               LET r == read_messages(schema, answers, fail)
                   out == EmitLoop(r.messages, 1, seen, emitted, Len(emitted))
               IN  /\ lastRead' = [call |-> "poll", raised |-> r.raised, caught |-> r.caught]
                   /\ incidents' = IF r.raised \/ r.caught THEN incidents + 1 ELSE incidents
                   /\ IF r.raised
                      THEN /\ pc' = "poll_crashed"
                           /\ UNCHANGED <<seen, msgs, emitted, openConns>>
                      ELSE /\ pc' = "sleep"
                           /\ msgs' = r.messages
                           /\ openConns' = openConns - 1
                           /\ seen' = out.seen
                           /\ emitted' = out.emitted
    /\ seen0' = seen
    /\ UNCHANGED <<storeVars, seeded, pureVars>>

\* time.sleep(poll) returns, line 276, and the loop goes round
Wake ==
    /\ pc = "sleep"
    /\ pc' = "poll_connect"
    /\ UNCHANGED <<storeVars, incidents, seen, msgs, emitted, openConns, histVars, pureVars>>

\* Ctrl+C: KeyboardInterrupt is raised where monitor is.  Lines 264-265 are
\* outside the try of line 267; nothing closes the connection of a call
\* that is interrupted.
Interrupt ==
    /\ Running
    /\ pc' = IF pc \in {"seed_connect", "seed_read"} THEN "seed_interrupted" ELSE "stopped"
    /\ UNCHANGED <<storeVars, incidents, seen, msgs, emitted, openConns, histVars, pureVars>>

Next ==
    \/ \E t \in Synced(schema), r \in Arrivals : InsertRow(t, r)
    \/ \E t \in Synced(schema) : InsertBurst(t)
    \/ \E t \in Synced(schema), id \in 1..Len(History) : DeleteRow(t, id)
    \/ \E t \in Synced(schema), who \in Threads : DeleteThread(t, who)
    \/ SeedConnect
    \/ Seed
    \/ PollConnect
    \/ Poll
    \/ Wake
    \/ Interrupt

Spec == Init /\ [][Next]_vars

\* ---- format_timestamp on its own ------------------------------------------

\* monitor is not running
MonitorIdle ==
    /\ schema = <<>> /\ store = <<>> /\ incidents = 0 /\ pc = "idle"
    /\ seen = {} /\ msgs = <<>> /\ emitted = <<>>
    /\ openConns = 0 /\ seeded = NotSeeded /\ seen0 = {} /\ lastRead = NoRead

monitorVars == <<schema, store, incidents, pc, seen, msgs, emitted, openConns,
                 seeded, seen0, lastRead>>

\* the seconds values tried, hi * 10^6 + lo: around 10^9 (where 1000 * s
\* passes 1e12), around the last second of year 9999 and around 10^12
FormatHi == {0, 999, 1000, 1001, 1700, 253402, 253403, 999999, 1000000, 1000001, 2000000}
FormatLo == {0, 1, 300799, 300800, 999999}

InitFormat ==
    /\ MonitorIdle
    /\ fmt_in \in {Big(h, l) : h \in FormatHi, l \in FormatLo}
    /\ fmt_sec = Pending /\ fmt_ms = Pending
    /\ res_columns = <<>> /\ res_hyp = 0 /\ res_out = Pending

\* format_timestamp(s)
FormatSeconds ==
    /\ fmt_sec = Pending
    /\ fmt_sec' = format_timestamp(IntTs(fmt_in))
    /\ UNCHANGED <<monitorVars, fmt_in, fmt_ms, res_columns, res_hyp, res_out>>

\* format_timestamp(1000 * s)
FormatMilliseconds ==
    /\ fmt_ms = Pending
    /\ fmt_ms' = format_timestamp(IntTs(BigMul1000(fmt_in)))
    /\ UNCHANGED <<monitorVars, fmt_in, fmt_sec, res_columns, res_hyp, res_out>>

NextFormat == FormatSeconds \/ FormatMilliseconds

SpecFormat == InitFormat /\ [][NextFormat]_vars

\* ---- the column resolution on its own -------------------------------------

ColumnUniverse ==
    <<"id", "sender", "address", "SenderNumber", "from_address", "Body", "date", "type">>

Pick(q, S) == SelectSeq(q, LAMBDA x : x \in S)

\* the tables tried: every choice of columns, in either order
ColumnLists ==
    {Pick(ColumnUniverse, S) : S \in SUBSET Range(ColumnUniverse)}
    \cup {Pick(Reverse(ColumnUniverse), S) : S \in SUBSET Range(ColumnUniverse)}

InitResolve ==
    /\ MonitorIdle
    /\ fmt_in = Big(0, 0) /\ fmt_sec = Pending /\ fmt_ms = Pending
    /\ res_columns \in ColumnLists
    /\ res_hyp \in DOMAIN candidates
    /\ res_out = Pending

\* lines 133-135 for the hypothesis res_hyp on a table with res_columns
Resolve ==
    /\ res_out = Pending
    /\ res_out' = ResolveColumns(res_hyp, res_columns)
    /\ UNCHANGED <<monitorVars, fmt_in, fmt_sec, fmt_ms, res_columns, res_hyp>>

NextResolve == Resolve

SpecResolve == InitResolve /\ [][NextResolve]_vars

\* monitor with the one thing the code waits for granted: time.sleep(poll)
\* returns.  (The calls themselves may raise or be interrupted, so that
\* nothing makes the loop go on; a property of the loop that keeps polling
\* says so itself.)
SpecLive == Spec /\ WF_vars(Wake)

\* ---- the claims -----------------------------------------------------------

EmittedOrigins == {emitted[i].msg.origin : i \in DOMAIN emitted}

KeysOf(list) == {msg_id(list[i]) : i \in DOMAIN list}

\* a row that arrived during the session is in the store and has not been
\* printed (no store starts with a row of Arrivals or Burst)
Missed ==
    \E r \in AllRows(store) \ EmittedOrigins :
        r.rowid \in {a.rowid : a \in Arrivals \cup Range(Burst)}

\* C1: no row that was in the store when the seeding fetch ran is ever
\* printed as a new message (stated for sessions whose seeding fetch met no
\* failure).
C1_NoOldMessageAsNew ==
    (seeded.done /\ ~seeded.caught) => EmittedOrigins \cap seeded.rows = {}

\* C2: a poll prints exactly one event for each key of the fetched list that
\* is not in `seen` and none for a key in `seen`, earlier events stay as they
\* are, the keys printed are added to `seen`, `seen` only grows, and no key
\* is printed twice in a session.
C2_ExactlyOncePerNewKey ==
    [][/\ seen \subseteq seen'
       /\ (pc = "poll_read" /\ pc' = "sleep") =>
            LET fresh == KeysOf(msgs') \ seen
                printed == SubSeq(emitted', Len(emitted) + 1, Len(emitted'))
            IN  /\ SubSeq(emitted', 1, Len(emitted)) = emitted
                /\ {printed[i].key : i \in DOMAIN printed} = fresh
                /\ Len(printed) = Cardinality(fresh)
                /\ seen' = seen \cup fresh
       /\ \A i, j \in DOMAIN emitted' : emitted'[i].key = emitted'[j].key => i = j
      ]_vars

\* C2, its case: seeding fetched {A, B, C}, a poll fetched {A, B, C, D} and
\* printed one event, for D
C2_Witness ==
    /\ pc = "sleep"
    /\ Cardinality(seen0) = 3
    /\ Len(msgs) = 4 /\ seen0 \subseteq KeysOf(msgs)
    /\ Len(emitted) = 1 /\ emitted[1].key \in KeysOf(msgs) \ seen0
    /\ seen = seen0 \cup {emitted[1].key}

\* C3: while the loop keeps polling, every row that arrives in the store
\* after seeding is printed as new by some poll: once rows have stopped
\* arriving, the time comes when none of them is left unprinted.
C3_NoMissedMessage == ([]<>(pc = "sleep")) => <>[]~Missed

\* C4: a fetch of the loop that fails does not end the loop.
C4_FailedFetchDoesNotEndLoop == pc # "poll_crashed"

\* C5: a read_messages call in which a store query raised does not return
\* an empty list as if the store held no messages.
C5_FailureNotAnEmptyList ==
    ~(lastRead.call # "none" /\ lastRead.caught /\ ~lastRead.raised /\ msgs = <<>>)

\* C6: of two events printed in the same poll, the one printed first does
\* not have the later timestamp.
C6_ArrivalOrder ==
    \A i, j \in DOMAIN emitted :
        (/\ i < j
         /\ emitted[i].before = emitted[j].before
         /\ emitted[i].msg.timestamp.kind = "instant"
         /\ emitted[j].msg.timestamp.kind = "instant")
        => ~BigGT(emitted[i].msg.timestamp.second, emitted[j].msg.timestamp.second)

\* C7: after an interrupt monitor has returned (the interrupt did not
\* propagate) and no connection opened by read_messages is left open.
C7_CleanExit ==
    pc \in {"stopped", "seed_interrupted"} => (pc = "stopped" /\ openConns = 0)

\* C8: the messages a read_messages call returns are rows of one
\* hypothesis, the first in list order whose query gave a row.
C8_OneHypothesis ==
    (lastRead.call # "none" /\ ~lastRead.raised) =>
        \A i, j \in DOMAIN msgs : msgs[i].hyp = msgs[j].hyp

\* 1000 * s > 10^12, that is s > 10^9
AboveAsMilliseconds(s) == BigGT(s, Big(1000, 0))

\* C9 as stated: for every seconds value s with 1000 * s above the
\* threshold, format_timestamp gives the same instant for s and 1000 * s.
C9_SameInstantForEvery ==
    (fmt_sec # Pending /\ fmt_ms # Pending /\ AboveAsMilliseconds(fmt_in))
    => (fmt_sec.kind = "instant" /\ fmt_sec = fmt_ms)

\* C9 as amended: for every seconds value s with 1000 * s above the
\* threshold and s no later than the last second datetime can hold,
\* format_timestamp gives the instant s for both s and 1000 * s.
C9_SameInstantInRange ==
    (/\ fmt_sec # Pending /\ fmt_ms # Pending
     /\ AboveAsMilliseconds(fmt_in)
     /\ ~BigGT(fmt_in, MaxEpochSecond))
    => (fmt_sec = Formatted(fmt_in) /\ fmt_ms = Formatted(fmt_in))

\* C9, its case: 1700000000 and 1700000000000
C9_Witness ==
    /\ fmt_in = Big(1700, 0)
    /\ fmt_sec = Formatted(Big(1700, 0))
    /\ fmt_ms = Formatted(Big(1700, 0))

\* the first name of `names` that a column has, case-insensitively
FirstPresent(names, columns) ==
    LET have == {k \in DOMAIN names : Lower(names[k]) \in Range(LowerAll(columns))}
    IN  IF have = {} THEN None ELSE Lower(names[Min(have)])

LowerOrNone(col) == IF col = None THEN None ELSE Lower(col)

OwnSenderPresent ==
    Lower(candidates[res_hyp].sender_col) \in Range(LowerAll(res_columns))

\* C10 as stated: a table without the hypothesis' own sender column gets as
\* sender column the first of sender, address, from_address, number,
\* phone_number that it has.
C10_SenderBeforeAddress ==
    (res_out # Pending /\ ~OwnSenderPresent) =>
        LowerOrNone(res_out.s_col) =
            FirstPresent(<<"sender", "address", "from_address", "number", "phone_number">>,
                         res_columns)

\* C10 as amended: the sender column is the hypothesis' own sender column
\* when the table has it, else the first of address, sender, from_address,
\* number, phone_number that it has: a table with both sender and address
\* and without the own name resolves to address.
C10_AddressBeforeSender ==
    res_out # Pending =>
        /\ LowerOrNone(res_out.s_col) =
              IF OwnSenderPresent THEN Lower(candidates[res_hyp].sender_col)
              ELSE FirstPresent(<<"address", "sender", "from_address", "number",
                                  "phone_number">>, res_columns)
        /\ res_out.s_col # None => InSeq(res_out.s_col, res_columns)

\* C10, its case: the fourth hypothesis on a table with sender and address
\* and no SenderNumber
C10_Witness ==
    /\ res_hyp = 4
    /\ InSeq("sender", res_columns) /\ InSeq("address", res_columns)
    /\ ~InSeq("SenderNumber", res_columns)
    /\ res_out # Pending /\ res_out.s_col = "address"

====
